---- MODULE Spec2Model ----
(***************************************************************************)
(* A model of three parts of the cuttlefish host tools:                    *)
(*   - OpenWrt::Commands(), the command source that builds the crosvm      *)
(*     command of the access-point VM (host/commands/run_cvd/launch/       *)
(*     open_wrt.cpp), stepped through in program order;                    *)
(*   - HandleCmds(), the gRPC control-plane handler                        *)
(*     (host/libs/control_env/grpc_service_handler.cc);                    *)
(*   - the feature graph scheduler that orders SetupFeature nodes, of      *)
(*     which OpenWrt is one.                                               *)
(* Each part has its own specification (Spec, SpecGrpc, SpecResolve) over  *)
(* its own variables; the variables of the other parts stay idle.         *)
(***************************************************************************)
EXTENDS Integers, Sequences, FiniteSets, TLC

VARIABLES
    \* ---- OpenWrt::Commands() ----
    config,         \* CuttlefishConfig / InstanceSpecific values read by Commands()
    host,           \* host facts read by Commands(): legacy lease file, tap outcome
    pc,             \* position of the control thread inside Commands()
    ap_cmd,         \* argument list of the CrosvmBuilder's command
    wifi_tap,       \* SharedFD returned by AddTap: "unset", "open" or "closed"
    release,        \* the ReleaseDhcpLeases call, if any
    touched,        \* lease files handed to the release step
    errlog,         \* LOG(ERROR) lines written by Commands()
    commands,       \* std::vector<Command> commands
    result,         \* what Commands() returned
    \* ---- HandleCmds() ----
    listing,        \* per server address, the lines `grpc_cli ls <address>` prints
    list_fails,     \* the server addresses whose `grpc_cli ls` fails (at most one)
    request,        \* [cmd, args] given to HandleCmds
    remote_calls,   \* number of grpc_cli invocations issued for the request
    outcome,        \* result of HandleCmds
    \* ---- feature graph ----
    build_flags,    \* compile-time and config inputs of OpenWrt::Enabled()
    enabled_in,     \* Enabled() of the other registered features
    deps_in,        \* Dependencies() of the other registered features
    order           \* result of Resolve()

owVars   == <<config, host, pc, ap_cmd, wifi_tap, release, touched, errlog,
              commands, result>>
grpcVars == <<listing, list_fails, request, remote_calls, outcome>>
fgVars   == <<build_flags, enabled_in, deps_in, order>>
vars     == <<owVars, grpcVars, fgVars>>

----------------------------------------------------------------------------
(* Bounds of the model.                                                    *)

\* Instance numbers range over 1..MaxInstance; 4*65-3 = 257 is the first
\* value that does not fit the 8-bit octet.
MaxInstance == 66

----------------------------------------------------------------------------
(* OpenWrt::Commands()                                                     *)

\* (std::uint8_t) x
Uint8(x) == x % 256

\* ForCurrentInstance(1): base + instance number - 1
ForCurrentInstance(base) == base + config.instance - 1

\* std::uint8_t dhcp_server_ip[] = {192, 168, 96, (uint8_t)(index * 4 - 3)}
DhcpServerIp(index) == <<192, 168, 96, Uint8(index * 4 - 3)>>

\* ForCurrentInstance("/var/run/cuttlefish-dnsmasq-cvd-wbr-") + ".leases"
LeaseFile == <<"/var/run/cuttlefish-dnsmasq-cvd-wbr-", config.instance, ".leases">>

\* FileExists("/var/run/cuttlefish-dnsmasq-cvd-wbr.leases")
LegacyBridgeLeases == "/var/run/cuttlefish-dnsmasq-cvd-wbr.leases"
FileExists(path) == path \in host.files

\* Command::AddParameter: one more argument at the end of the list
AddParameter(args, flag, value) == Append(args, [flag |-> flag, value |-> value])

PerInstancePath(name)         == <<"instance", config.instance, name>>
PerInstanceInternalPath(name) == <<"internal", config.instance, name>>
PerInstanceLogPath(name)      == <<"logs", config.instance, name>>

\* CrosvmBuilder helpers, each one AddParameter on the builder's command
AddControlSocket(args, path) == AddParameter(args, "--socket=", path)
AddReadWriteDisk(args, path) == AddParameter(args, "--rwdisk=", path)
AddReadOnlyDisk(args, path)  == AddParameter(args, "--disk=", path)
AddSerialConsoleReadOnly(args, path) == AddParameter(args, "--serial=serial", path)
AddHvcReadOnly(args, path)   == AddParameter(args, "--serial=virtio-console", path)
\* CrosvmBuilder::AddTap: the fd is passed to crosvm only when it is open
AddTap(args, fd) ==
    IF fd = "open" THEN AddParameter(args, "--tap-fd=", <<config.wifi_tap_name>>)
    ELSE args

NoRelease == [attempted |-> FALSE, pending |-> FALSE, ok |-> FALSE,
              lease_file |-> <<>>, ip |-> <<>>]

OwInit ==
    /\ config \in [enable_sandbox : BOOLEAN,
                   hwsim : {"", "/hwsim.sock"},
                   instance : 1..MaxInstance,
                   wifi_tap_name : {"cvd-wtap"}]
    /\ host \in [files : SUBSET {LegacyBridgeLeases}, tap_opens : BOOLEAN]
    /\ pc = "start"
    /\ ap_cmd = <<>>
    /\ wifi_tap = "unset"
    /\ release = NoRelease
    /\ touched = {}
    /\ errlog = <<>>
    /\ commands = <<>>
    /\ result = "none"

OwIdle ==
    /\ config = [enable_sandbox |-> FALSE, hwsim |-> "", instance |-> 1,
                 wifi_tap_name |-> "cvd-wtap"]
    /\ host = [files |-> {}, tap_opens |-> FALSE]
    /\ pc = "idle"
    /\ ap_cmd = <<>>
    /\ wifi_tap = "unset"
    /\ release = NoRelease
    /\ touched = {}
    /\ errlog = <<>>
    /\ commands = <<>>
    /\ result = "none"

\* lines 38-47: builder, control socket, optional hwsim argument, AddTap
SetUpBuilder ==
    /\ pc = "start"
    /\ LET fd == IF host.tap_opens THEN "open" ELSE "closed"
           a1 == AddControlSocket(<<>>, PerInstanceInternalPath("ap_control.sock"))
           a2 == IF config.hwsim # ""
                 THEN AddParameter(a1, "--vhost-user-mac80211-hwsim=", <<config.hwsim>>)
                 ELSE a1
       IN /\ wifi_tap' = fd
          /\ ap_cmd' = AddTap(a2, fd)
    /\ pc' = "leases"
    /\ UNCHANGED <<config, host, release, touched, errlog, commands, result,
                   grpcVars, fgVars>>

\* lines 51-52: the condition of the leases workaround
\* variant of the condition that forgets the tap: C6 must tell it apart
NeedsLeaseReleaseAnyTap == ~FileExists(LegacyBridgeLeases)
NeedsLeaseRelease == ~FileExists(LegacyBridgeLeases) /\ wifi_tap = "open"

\* lines 51-60: the workaround is entered and ReleaseDhcpLeases is called,
\* or skipped
CallReleaseDhcpLeases ==
    /\ pc = "leases"
    /\ IF NeedsLeaseRelease
       THEN /\ release' = [attempted |-> TRUE, pending |-> TRUE, ok |-> FALSE,
                           lease_file |-> LeaseFile,
                           ip |-> DhcpServerIp(ForCurrentInstance(1))]
            /\ touched' = touched \cup {LeaseFile}
            /\ pc' = "releasing"
       ELSE /\ pc' = "sandbox"
            /\ UNCHANGED <<release, touched>>
    /\ UNCHANGED <<config, host, ap_cmd, wifi_tap, errlog, commands, result,
                   grpcVars, fgVars>>

\* lines 60-64: what Commands() does with the value ReleaseDhcpLeases returned
\* variant that returns an error when the release fails: C7 must tell it apart
AfterReleaseFatal(ok) ==
    /\ release' = [release EXCEPT !.pending = FALSE, !.ok = ok]
    /\ IF ok
       THEN /\ pc' = "sandbox"
            /\ UNCHANGED <<errlog, result>>
       ELSE /\ errlog' = Append(errlog, "Failed to release wifi DHCP leases.")
            /\ result' = "error"
            /\ pc' = "done"
\* variant where the call returns while the cleanup is still going on: C11
\* must tell it apart
AfterReleaseDetached(ok) ==
    /\ release' = [release EXCEPT !.ok = ok]
    /\ errlog' = IF ok THEN errlog
                 ELSE Append(errlog, "Failed to release wifi DHCP leases.")
    /\ pc' = "sandbox"
    /\ UNCHANGED result
AfterRelease(ok) ==
    /\ release' = [release EXCEPT !.pending = FALSE, !.ok = ok]
    /\ errlog' = IF ok THEN errlog
                 ELSE Append(errlog, "Failed to release wifi DHCP leases.")
    /\ pc' = "sandbox"
    /\ UNCHANGED result

\* ReleaseDhcpLeases returns, with success or failure
ReleaseReturns ==
    /\ pc = "releasing"
    /\ \E ok \in BOOLEAN : AfterRelease(ok)
    /\ UNCHANGED <<config, host, ap_cmd, wifi_tap, touched, commands,
                   grpcVars, fgVars>>

\* lines 66-71: exactly one of the two sandbox arguments
\* variant that adds both arguments: C1 must tell it apart
SandboxArgsBoth(args) ==
    AddParameter(AddParameter(args, "--seccomp-policy-dir=", <<"seccomp_policy_dir">>),
                 "--disable-sandbox", <<>>)
SandboxArgs(args) ==
    IF config.enable_sandbox
    THEN AddParameter(args, "--seccomp-policy-dir=", <<"seccomp_policy_dir">>)
    ELSE AddParameter(args, "--disable-sandbox", <<>>)

\* lines 72-74: the overlay, then the composite disk
\* variant with the two disks in the other order: C2 must tell it apart
DiskArgsSwapped(args) ==
    AddReadWriteDisk(AddReadOnlyDisk(args, PerInstancePath("persistent_composite.img")),
                     PerInstancePath("ap_overlay.img"))
DiskArgs(args) ==
    AddReadOnlyDisk(AddReadWriteDisk(args, PerInstancePath("ap_overlay.img")),
                    PerInstancePath("persistent_composite.img"))

\* lines 76-85: kernel parameters, the two consoles, the kernel image
TailArgs(args) ==
    LET a1 == AddParameter(args, "--params=", <<"root=", "ap_image_dev_path">>)
        a2 == AddSerialConsoleReadOnly(a1, PerInstanceLogPath("crosvm_openwrt_boot.log"))
        a3 == AddHvcReadOnly(a2, PerInstanceLogPath("crosvm_openwrt.log"))
    IN AddParameter(a3, "", <<"ap_kernel_image">>)

\* lines 66-85
FinishArguments ==
    /\ pc = "sandbox"
    /\ ap_cmd' = TailArgs(DiskArgs(SandboxArgs(ap_cmd)))
    /\ pc' = "tee"
    /\ UNCHANGED <<config, host, wifi_tap, release, touched, errlog, commands, result,
                   grpcVars, fgVars>>

\* LogTeeCreator::CreateLogTee(cmd, name): the relay process of cmd's output
CreateLogTee(cmd, name) ==
    [binary |-> "log_tee", args |-> <<[flag |-> "--process_name=", value |-> <<name>>]>>,
     tees |-> cmd.binary]
\* ap_cmd.Cmd()
Cmd == [binary |-> "crosvm", args |-> ap_cmd, tees |-> ""]

\* lines 87-88 and line 89: what is put at the end of the list
\* variant that puts the primary command first: C3 must tell it apart
EmitFirstPrimary  == Append(commands, Cmd)
EmitFirst  == Append(commands, CreateLogTee(Cmd, "openwrt"))
EmitSecond == Append(commands, Cmd)

\* lines 87-88
EmitLogTee ==
    /\ pc = "tee"
    /\ commands' = EmitFirst
    /\ pc' = "primary"
    /\ UNCHANGED <<config, host, ap_cmd, wifi_tap, release, touched, errlog, result,
                   grpcVars, fgVars>>

\* line 89
EmitPrimary ==
    /\ pc = "primary"
    /\ commands' = EmitSecond
    /\ pc' = "return"
    /\ UNCHANGED <<config, host, ap_cmd, wifi_tap, release, touched, errlog, result,
                   grpcVars, fgVars>>

\* line 90
Return ==
    /\ pc = "return"
    /\ result' = "ok"
    /\ pc' = "done"
    /\ UNCHANGED <<config, host, ap_cmd, wifi_tap, release, touched, errlog, commands,
                   grpcVars, fgVars>>


----------------------------------------------------------------------------
(* HandleCmds(): the gRPC control-plane handler.  A string is a sequence   *)
(* of one-character strings, so that EndsWith is the suffix test it is in  *)
(* the code.                                                               *)

kServiceServerReflection ==
    <<"g","r","p","c",".","r","e","f","l","e","c","t","i","o","n",".",
      "v","1","a","l","p","h","a",".",
      "S","e","r","v","e","r","R","e","f","l","e","c","t","i","o","n">>
kServiceHealth ==
    <<"g","r","p","c",".","h","e","a","l","t","h",".","v","1",".",
      "H","e","a","l","t","h">>

\* The services a server may list, and the names a request may ask for.
\* "a.S" and "b.S" are two services of different packages that share their
\* short name.
ServiceUniverse == << <<"a",".","S">>, <<"b",".","S">>,
                      kServiceServerReflection, kServiceHealth >>
ServiceQueries == { <<"S">>, <<"a",".","S">>, <<"H","e","a","l","t","h">>,
                    <<"R","e","f","l","e","c","t","i","o","n">> }

\* Number of server addresses found under the gRPC socket directory.
NumServers == 2
\* Requests carry 0..MaxArgs arguments.
MaxArgs == 4

\* server_address_list, in the order the directory iterator gave it
ServerAddressList == [i \in 1..NumServers |-> i]

RECURSIVE SubSeqOf(_, _, _)
SubSeqOf(seq, keep, i) ==
    IF i > Len(seq) THEN <<>>
    ELSE (IF i \in keep THEN <<seq[i]>> ELSE <<>>) \o SubSeqOf(seq, keep, i + 1)
\* every output `grpc_cli ls <address>` may give: some of the services, in order
Listings == { SubSeqOf(ServiceUniverse, keep, 1) :
                keep \in SUBSET (1..Len(ServiceUniverse)) }

\* android::base::EndsWith
EndsWith(s, suffix) ==
    /\ Len(suffix) <= Len(s)
    /\ SubSeq(s, Len(s) - Len(suffix) + 1, Len(s)) = suffix

\* the arguments of a request: service name, method name, third argument, extras
ArgsOf(service_name, n) ==
    [i \in 1..n |-> IF i = 1 THEN service_name
                    ELSE IF i = 2 THEN <<"M">>
                    ELSE IF i = 3 THEN <<"{","}">>
                    ELSE <<"x">>]

Err(msg, calls) == [kind |-> "error", error |-> msg, calls |-> calls]

\* GetServiceList: one remote call, then the two built-in services are dropped
IsBuiltIn(name) == name = kServiceServerReflection \/ name = kServiceHealth
ListedServices(server_address) ==
    SelectSeq(listing[server_address], LAMBDA name : ~IsBuiltIn(name))
GetServiceList(server_address) ==
    IF server_address \in list_fails
    THEN Err("gRPC command failed", 1)
    ELSE [kind |-> "ok", value |-> ListedServices(server_address), calls |-> 1]

\* the loop of GetServerAddress from position i on: the addresses that list a
\* service whose name ends with service_name (one entry per address)
RECURSIVE ScanServers(_, _, _, _)
ScanServers(service_name, i, candidates, calls) ==
    IF i > Len(ServerAddressList)
    THEN [kind |-> "ok", value |-> candidates, calls |-> calls]
    ELSE LET server_address == ServerAddressList[i]
             service_names == GetServiceList(server_address)
         IN IF service_names.kind = "error"
            THEN Err(service_names.error, calls + service_names.calls)
            ELSE ScanServers(service_name, i + 1,
                    IF \E k \in 1..Len(service_names.value) :
                          EndsWith(service_names.value[k], service_name)
                    THEN Append(candidates, server_address)
                    ELSE candidates,
                    calls + service_names.calls)

\* the two CF_EXPECTs on candidates.size(), and candidates[0]
\* variant without the second CF_EXPECT: C8 must tell it apart
OneCandidateFirst(candidates, calls) ==
    IF Len(candidates) = 0 THEN Err("is not found.", calls)
    ELSE [kind |-> "ok", value |-> candidates[1], calls |-> calls]
OneCandidate(candidates, calls) ==
    IF Len(candidates) = 0 THEN Err("is not found.", calls)
    ELSE IF Len(candidates) >= 2 THEN Err("is ambiguous.", calls)
    ELSE [kind |-> "ok", value |-> candidates[1], calls |-> calls]

GetServerAddress(service_name) ==
    LET scan == ScanServers(service_name, 1, <<>>, 0)
    IN IF scan.kind = "error" THEN scan
       ELSE OneCandidate(scan.value, scan.calls)

GetFullServiceName(server_address, service_name) ==
    LET service_names == GetServiceList(server_address)
    IN IF service_names.kind = "error" THEN service_names
       ELSE OneCandidate(
              SelectSeq(service_names.value,
                        LAMBDA full : EndsWith(full, service_name)),
              service_names.calls)

\* GetFullMethodName: full_service_name + "/" + method_name
GetFullMethodName(server_address, service_name, method_name) ==
    LET full == GetFullServiceName(server_address, service_name)
    IN IF full.kind = "error" THEN full
       ELSE [full EXCEPT !.value = full.value \o <<"/">> \o method_name]

\* GetServerAddress, then the full service name on that address: what ls (with
\* a service name), type and call do first.  resolved is <<address, full name>>.
ResolveService(service_name) ==
    LET addr == GetServerAddress(service_name)
    IN IF addr.kind = "error" THEN addr
       ELSE LET full == GetFullServiceName(addr.value, service_name)
            IN IF full.kind = "error"
               THEN Err(full.error, addr.calls + full.calls)
               ELSE [kind |-> "ok", value |-> <<addr.value, full.value>>,
                     calls |-> addr.calls + full.calls]

\* What the remote side answers once the service is resolved:
\*   "ok"              every later grpc_cli command succeeds and parses
\*   "command_failed"  a later grpc_cli command fails
\*   "bad_parse"       the `ls -l` output does not split into 5 pieces
\*   "type_not_found"  no piece of the `ls -l` output ends with the type name
\*   "type_ambiguous"  two or more pieces do
Answers == {"ok", "command_failed", "bad_parse", "type_not_found", "type_ambiguous"}

Done(resolved, calls) ==
    [kind |-> "ok", error |-> "", resolved |-> resolved, calls |-> calls]
Failed(msg, resolved, calls) ==
    [kind |-> "error", error |-> msg, resolved |-> resolved, calls |-> calls]

\* the loop of HandleLsCmd case 0: one `grpc_cli ls` per address
RECURSIVE ListAll(_, _)
ListAll(i, calls) ==
    IF i > Len(ServerAddressList) THEN Done(<<>>, calls)
    ELSE IF ServerAddressList[i] \in list_fails
         THEN Failed("gRPC command failed", <<>>, calls + 1)
         ELSE ListAll(i + 1, calls + 1)

HandleLsCmd(args, ans) ==
    IF Len(args) = 0 THEN ListAll(1, 0)
    ELSE IF Len(args) \in {1, 2}
    THEN LET r == ResolveService(args[1])
         IN IF r.kind = "error" THEN Failed(r.error, <<>>, r.calls)
            ELSE IF ans = "command_failed"
                 THEN Failed("gRPC command failed", r.value, r.calls + 1)
            ELSE IF Len(args) = 2 /\ ans = "bad_parse"
                 THEN Failed("Unexpected parsing result", r.value, r.calls + 1)
            ELSE Done(r.value, r.calls + 1)
    ELSE Failed("too many arguments", <<>>, 0)

HandleTypeCmd(args, ans) ==
    IF ~(Len(args) > 2)
    THEN Failed("need to specify a service name, a method name, and type_name",
                <<>>, 0)
    ELSE IF ~(Len(args) < 4) THEN Failed("too many arguments", <<>>, 0)
    ELSE LET r == ResolveService(args[1])
         IN IF r.kind = "error" THEN Failed(r.error, <<>>, r.calls)
            \* GetFullTypeName: `ls -l` of the method, then the type candidates
            ELSE IF ans = "command_failed"
                 THEN Failed("gRPC command failed", r.value, r.calls + 1)
            ELSE IF ans = "type_not_found"
                 THEN Failed("is not found.", r.value, r.calls + 1)
            ELSE IF ans = "type_ambiguous"
                 THEN Failed("is ambiguous.", r.value, r.calls + 1)
            ELSE Done(r.value, r.calls + 2)

\* variant without the upper argument check: C9 must tell it apart
HandleCallCmdLax(args, ans) ==
    IF ~(Len(args) > 2)
    THEN Failed("need to specify a service name, a method name, and json-formatted proto",
                <<>>, 0)
    ELSE LET r == ResolveService(args[1])
         IN IF r.kind = "error" THEN Failed(r.error, <<>>, r.calls)
            ELSE IF ans = "command_failed"
                 THEN Failed("gRPC command failed", r.value, r.calls + 1)
            ELSE Done(r.value, r.calls + 1)
HandleCallCmd(args, ans) ==
    IF ~(Len(args) > 2)
    THEN Failed("need to specify a service name, a method name, and json-formatted proto",
                <<>>, 0)
    ELSE IF ~(Len(args) < 4) THEN Failed("too many arguments", <<>>, 0)
    ELSE LET r == ResolveService(args[1])
         IN IF r.kind = "error" THEN Failed(r.error, <<>>, r.calls)
            ELSE IF ans = "command_failed"
                 THEN Failed("gRPC command failed", r.value, r.calls + 1)
            ELSE Done(r.value, r.calls + 1)

\* command_map and its lookup
HandleCmds(cmd, args, ans) ==
    IF cmd = "call" THEN HandleCallCmd(args, ans)
    ELSE IF cmd = "ls" THEN HandleLsCmd(args, ans)
    ELSE IF cmd = "type" THEN HandleTypeCmd(args, ans)
    ELSE Failed("isn't supported", <<>>, 0)

NoOutcome == [kind |-> "none", error |-> "", resolved |-> <<>>, calls |-> 0]

GrpcInit ==
    /\ listing \in [1..NumServers -> Listings]
    /\ list_fails \in {{}} \cup {{a} : a \in 1..NumServers}
    /\ request \in { [cmd |-> c, args |-> ArgsOf(q, n)] :
                       c \in {"call", "ls", "type", "status"},
                       q \in ServiceQueries, n \in 0..MaxArgs }
    /\ remote_calls = 0
    /\ outcome = NoOutcome

GrpcIdle ==
    /\ listing = [i \in 1..NumServers |-> <<>>]
    /\ list_fails = {}
    /\ request = [cmd |-> "", args |-> <<>>]
    /\ remote_calls = 0
    /\ outcome = NoOutcome

\* one call of HandleCmds, from its entry to its return
HandleRequest ==
    /\ outcome.kind = "none"
    /\ \E ans \in Answers :
          LET r == HandleCmds(request.cmd, request.args, ans)
          IN /\ outcome' = r
             /\ remote_calls' = r.calls
    /\ UNCHANGED <<listing, list_fails, request, owVars, fgVars>>

----------------------------------------------------------------------------
(* The feature graph.  Feature 0 is OpenWrt; features 1..NumFeatures are   *)
(* the other registered features, with any Enabled() and any Dependencies()*)
(* among the registered features.  Registration order is 0, 1, 2, ...      *)

\* Number of registered features besides OpenWrt.
NumFeatures == 2

OpenWrt == 0
Features == 0..NumFeatures

\* vm_manager::QemuManager::name() and vm_manager::CrosvmManager::name()
QemuManagerName == "qemu_cli"
CrosvmManagerName == "crosvm"

\* OpenWrt::Enabled()
OpenWrtEnabled ==
    IF ~build_flags.enforce_mac80211_hwsim THEN FALSE
    ELSE build_flags.start_ap /\ build_flags.vm_manager = CrosvmManagerName
\* OpenWrt::Dependencies()
OpenWrtDependencies == {}

Enabled(f) == IF f = OpenWrt THEN OpenWrtEnabled ELSE enabled_in[f]
Dependencies(f) == IF f = OpenWrt THEN OpenWrtDependencies ELSE deps_in[f]

EnabledFeatures == {f \in Features : Enabled(f)}
Placed(seq) == {seq[i] : i \in 1..Len(seq)}

\* The features that may come next: enabled, not placed yet, and every enabled
\* dependency placed.  A dependency on a disabled feature counts as satisfied.
\* variant where a disabled dependency blocks: C10 must tell it apart
ReadyStrict(placed) ==
    {f \in EnabledFeatures \ Placed(placed) : Dependencies(f) \subseteq Placed(placed)}
Ready(placed) ==
    {f \in EnabledFeatures \ Placed(placed) :
        (Dependencies(f) \cap EnabledFeatures) \subseteq Placed(placed)}

\* Resolve(): the first ready feature in registration order is placed next;
\* CycleError when features remain and none is ready.
RECURSIVE ResolveFrom(_)
ResolveFrom(placed) ==
    IF EnabledFeatures \subseteq Placed(placed)
    THEN [kind |-> "ok", order |-> placed, nodes |-> {}]
    ELSE IF Ready(placed) = {}
    THEN [kind |-> "CycleError", order |-> <<>>,
          nodes |-> EnabledFeatures \ Placed(placed)]
    ELSE LET next == CHOOSE f \in Ready(placed) :
                        \A g \in Ready(placed) : f <= g
         IN ResolveFrom(Append(placed, next))

NotResolved == [kind |-> "none", order |-> <<>>, nodes |-> {}]

FgInit ==
    /\ build_flags \in [enforce_mac80211_hwsim : BOOLEAN, start_ap : BOOLEAN,
                        vm_manager : {CrosvmManagerName, QemuManagerName}]
    /\ enabled_in \in [1..NumFeatures -> BOOLEAN]
    /\ deps_in \in [1..NumFeatures -> SUBSET Features]
    /\ \A f \in 1..NumFeatures : f \notin deps_in[f]
    /\ order = NotResolved

FgIdle ==
    /\ build_flags = [enforce_mac80211_hwsim |-> FALSE, start_ap |-> FALSE,
                      vm_manager |-> CrosvmManagerName]
    /\ enabled_in = [f \in 1..NumFeatures |-> FALSE]
    /\ deps_in = [f \in 1..NumFeatures |-> {}]
    /\ order = NotResolved

\* one call of Resolve()
Resolve ==
    /\ order.kind = "none"
    /\ order' = ResolveFrom(<<>>)
    /\ UNCHANGED <<build_flags, enabled_in, deps_in, owVars, grpcVars>>

----------------------------------------------------------------------------
(* Specifications                                                          *)

Init == OwInit /\ GrpcIdle /\ FgIdle
Next ==
    \/ SetUpBuilder
    \/ CallReleaseDhcpLeases
    \/ ReleaseReturns
    \/ FinishArguments
    \/ EmitLogTee
    \/ EmitPrimary
    \/ Return
Spec == Init /\ [][Next]_vars

GrpcNext == HandleRequest
InitGrpc == OwIdle /\ GrpcInit /\ FgIdle
SpecGrpc == InitGrpc /\ [][GrpcNext]_vars

FgNext == Resolve
InitResolve == OwIdle /\ GrpcIdle /\ FgInit
SpecResolve == InitResolve /\ [][FgNext]_vars

----------------------------------------------------------------------------
(* Properties of OpenWrt::Commands(), checked under Spec                   *)

HasFlag(args, flag) == \E i \in 1..Len(args) : args[i].flag = flag
CountFlags(args, flags) == Cardinality({i \in 1..Len(args) : args[i].flag \in flags})
IsTee(cmd)     == cmd.binary = "log_tee"
IsPrimary(cmd) == cmd.binary = "crosvm"
\* the primary commands of the returned list
Primaries == {i \in 1..Len(commands) : IsPrimary(commands[i])}

\* C1: the primary command of the returned list carries exactly one sandbox
\* argument: --seccomp-policy-dir= and no --disable-sandbox when
\* enable_sandbox is set, --disable-sandbox and no --seccomp-policy-dir=
\* when it is not.
C1_SandboxExclusive ==
    result = "ok" =>
        /\ Primaries # {}
        /\ \A i \in Primaries :
             LET args == commands[i].args
             IN /\ CountFlags(args, {"--seccomp-policy-dir=", "--disable-sandbox"}) = 1
                /\ config.enable_sandbox =>
                      HasFlag(args, "--seccomp-policy-dir=")
                      /\ ~HasFlag(args, "--disable-sandbox")
                /\ ~config.enable_sandbox =>
                      HasFlag(args, "--disable-sandbox")
                      /\ ~HasFlag(args, "--seccomp-policy-dir=")
C1_Witness ==
    /\ result = "ok"
    /\ config.enable_sandbox
    /\ \E i \in Primaries : HasFlag(commands[i].args, "--seccomp-policy-dir=")

IsOverlay(arg)   == arg.value = <<"instance", config.instance, "ap_overlay.img">>
IsComposite(arg) == arg.value = <<"instance", config.instance, "persistent_composite.img">>

\* C2: in the primary command's argument list the ap_overlay.img disk is at
\* a strictly smaller position than the persistent_composite.img disk, with
\* or without the optional arguments and whatever the lease cleanup did.
C2_OverlayBeforeComposite ==
    result = "ok" =>
        \A c \in Primaries :
            LET args == commands[c].args
            IN /\ \E i, j \in 1..Len(args) :
                     /\ i < j
                     /\ IsOverlay(args[i]) /\ args[i].flag = "--rwdisk="
                     /\ IsComposite(args[j]) /\ args[j].flag = "--disk="
               /\ \A i, j \in 1..Len(args) :
                     IsOverlay(args[i]) /\ IsComposite(args[j]) => i < j
C2_Witness ==
    /\ result = "ok"
    /\ config.hwsim # ""
    /\ release.attempted /\ ~release.ok
    /\ \E c \in Primaries : \E i \in 1..Len(commands[c].args) :
          IsOverlay(commands[c].args[i])

\* C3: in the command list the log tee sits immediately before the command
\* it tees: no primary command is ever in the list without its tee right
\* before it, and the returned list is the tee followed by the primary.
C3_TeeImmediatelyBefore ==
    /\ \A i \in Primaries :
          /\ i > 1
          /\ IsTee(commands[i - 1])
          /\ commands[i - 1].tees = commands[i].binary
    /\ result = "ok" =>
          \E i \in 1..Len(commands) - 1 :
              IsTee(commands[i]) /\ IsPrimary(commands[i + 1])
C3_Witness ==
    /\ result = "ok"
    /\ Len(commands) = 2
    /\ IsTee(commands[1]) /\ IsPrimary(commands[2])

\* C4: the last octet of the DHCP server IP handed to the release step is
\* the integer 4*i - 3, for every instance index i >= 1.
C4_LastOctetIsFormula ==
    release.attempted => release.ip[4] = 4 * config.instance - 3

\* C5: no other instance index gets the DHCP server IP this instance handed
\* to the release step.
C5_ServerIpsDistinct ==
    release.attempted =>
        \A j \in (1..MaxInstance) \ {config.instance} :
            DhcpServerIp(j) # release.ip

\* C6: the release step is attempted if and only if the legacy bridge lease
\* file does not exist and the wifi tap is open; otherwise it is not invoked
\* and no lease file is touched.
C6_ReleaseIffAbsentAndOpen ==
    pc \in {"releasing", "sandbox", "tee", "primary", "return", "done"} =>
        /\ release.attempted <=>
              (LegacyBridgeLeases \notin host.files /\ wifi_tap = "open")
        /\ ~release.attempted => touched = {}
        /\ release.attempted =>
              touched = {<<"/var/run/cuttlefish-dnsmasq-cvd-wbr-",
                           config.instance, ".leases">>}
C6_Witness ==
    /\ pc = "done"
    /\ release.attempted
    /\ LegacyBridgeLeases \notin host.files
    /\ wifi_tap = "open"

\* the command list Commands() returns for a configuration, written out
\* argument by argument, with no reference to the release step
Arg(flag, value) == [flag |-> flag, value |-> value]
ExpectedArguments ==
    <<Arg("--socket=", <<"internal", config.instance, "ap_control.sock">>)>>
    \o (IF config.hwsim # ""
        THEN <<Arg("--vhost-user-mac80211-hwsim=", <<config.hwsim>>)>> ELSE <<>>)
    \o (IF host.tap_opens THEN <<Arg("--tap-fd=", <<config.wifi_tap_name>>)>> ELSE <<>>)
    \o (IF config.enable_sandbox
        THEN <<Arg("--seccomp-policy-dir=", <<"seccomp_policy_dir">>)>>
        ELSE <<Arg("--disable-sandbox", <<>>)>>)
    \o <<Arg("--rwdisk=", <<"instance", config.instance, "ap_overlay.img">>),
         Arg("--disk=", <<"instance", config.instance, "persistent_composite.img">>),
         Arg("--params=", <<"root=", "ap_image_dev_path">>),
         Arg("--serial=serial", <<"logs", config.instance, "crosvm_openwrt_boot.log">>),
         Arg("--serial=virtio-console", <<"logs", config.instance, "crosvm_openwrt.log">>),
         Arg("", <<"ap_kernel_image">>)>>
ExpectedCommands ==
    <<[binary |-> "log_tee",
       args |-> <<Arg("--process_name=", <<"openwrt">>)>>, tees |-> "crosvm"],
      [binary |-> "crosvm", args |-> ExpectedArguments, tees |-> ""]>>

\* C7: a failed release step is logged and is not fatal: Commands() still
\* returns success, with the command list the configuration gives when the
\* step succeeds or is skipped; nothing is logged unless the step failed.
C7_ReleaseFailureNonFatal ==
    /\ (release.attempted /\ ~release.pending /\ ~release.ok) => Len(errlog) = 1
    /\ ~(release.attempted /\ ~release.pending /\ ~release.ok) => errlog = <<>>
    /\ pc = "done" => (result = "ok" /\ commands = ExpectedCommands)
C7_Witness ==
    /\ pc = "done"
    /\ release.attempted /\ ~release.ok
    /\ Len(errlog) = 1
    /\ result = "ok"
    /\ commands = ExpectedCommands

----------------------------------------------------------------------------
(* Properties of HandleCmds(), checked under SpecGrpc                      *)

\* every (address, line) of the listings where a service other than the two
\* built-in ones has a name ending with the requested service name
ServiceMatches ==
    {m \in (1..NumServers) \X (1..Len(ServiceUniverse)) :
        /\ m[2] <= Len(listing[m[1]])
        /\ listing[m[1]][m[2]] # kServiceServerReflection
        /\ listing[m[1]][m[2]] # kServiceHealth
        /\ request.args # <<>>
        /\ EndsWith(listing[m[1]][m[2]], request.args[1])}

\* the requests that resolve a service name
ResolvesService ==
    \/ request.cmd = "ls" /\ Len(request.args) \in {1, 2}
    \/ request.cmd \in {"type", "call"} /\ Len(request.args) = 3

\* C8: when every listing succeeds, ls (with a service name), type and call
\* get past name resolution only if exactly one listed service over all
\* addresses ends with the name; none gives "not found", two or more (on one
\* address or on several) give "ambiguous".
C8_ResolvesExactlyOne ==
    (outcome.kind # "none" /\ ResolvesService /\ list_fails = {}) =>
        /\ outcome.resolved # <<>> =>
              /\ Cardinality(ServiceMatches) = 1
              /\ \A m \in ServiceMatches :
                    outcome.resolved = <<m[1], listing[m[1]][m[2]]>>
        /\ Cardinality(ServiceMatches) = 0 =>
              /\ outcome.kind = "error" /\ outcome.error = "is not found."
              /\ outcome.resolved = <<>>
        /\ Cardinality(ServiceMatches) >= 2 =>
              /\ outcome.kind = "error" /\ outcome.error = "is ambiguous."
              /\ outcome.resolved = <<>>
\* two matching services on one address and none on the others
C8_Witness ==
    /\ outcome.kind = "error" /\ outcome.error = "is ambiguous."
    /\ request.cmd = "call" /\ Len(request.args) = 3
    /\ list_fails = {}
    /\ Cardinality(ServiceMatches) = 2
    /\ Cardinality({m[1] : m \in ServiceMatches}) = 1

ArgumentErrors ==
    {"too many arguments",
     "need to specify a service name, a method name, and type_name",
     "need to specify a service name, a method name, and json-formatted proto",
     "isn't supported"}

\* C9: ls takes 0, 1 or 2 arguments and answers "too many arguments" to 3 or
\* more; type and call take exactly 3, answer an error to fewer and "too
\* many arguments" to 4 or more; any other command name is an error; and no
\* remote call is issued in any of these error cases.
C9_ArgumentCounts ==
    outcome.kind # "none" =>
        LET n == Len(request.args)
            rejected == outcome.kind = "error" /\ outcome.error \in ArgumentErrors
        IN /\ request.cmd = "ls" /\ n <= 2 => ~rejected
           /\ request.cmd = "ls" /\ n >= 3 =>
                 outcome.kind = "error" /\ outcome.error = "too many arguments"
           /\ request.cmd \in {"type", "call"} /\ n = 3 => ~rejected
           /\ request.cmd = "type" /\ n < 3 =>
                 /\ outcome.kind = "error"
                 /\ outcome.error =
                      "need to specify a service name, a method name, and type_name"
           /\ request.cmd = "call" /\ n < 3 =>
                 /\ outcome.kind = "error"
                 /\ outcome.error =
                      "need to specify a service name, a method name, and json-formatted proto"
           /\ request.cmd \in {"type", "call"} /\ n >= 4 =>
                 outcome.kind = "error" /\ outcome.error = "too many arguments"
           /\ request.cmd \notin {"call", "ls", "type"} =>
                 outcome.kind = "error" /\ outcome.error = "isn't supported"
           /\ rejected => remote_calls = 0
C9_Witness ==
    /\ request.cmd = "call" /\ Len(request.args) = 4
    /\ outcome.kind = "error" /\ outcome.error = "too many arguments"
    /\ remote_calls = 0

----------------------------------------------------------------------------
(* Properties of Resolve(), checked under SpecResolve                      *)

\* the enabled features an enabled feature depends on
EnabledDeps(f) == {d \in Features : d \in Dependencies(f) /\ Enabled(d)}
RECURSIVE ReachableIn(_, _)
ReachableIn(from, steps) ==
    IF steps = 0 THEN from
    ELSE ReachableIn(from \cup UNION {EnabledDeps(f) : f \in from}, steps - 1)
\* a cycle among enabled features: one that reaches itself along enabled
\* dependencies
CycleAmongEnabled ==
    \E f \in Features :
        Enabled(f) /\ f \in ReachableIn(EnabledDeps(f), Cardinality(Features))

PositionOf(f) == CHOOSE i \in 1..Len(order.order) : order.order[i] = f

\* C10: with no cycle among the enabled features, Resolve() returns an order
\* that holds exactly the enabled features, each once, every feature after
\* its enabled dependencies; a dependency on a disabled feature does not
\* block, and disabled features are absent.
C10_ResolveOrder ==
    (order.kind # "none" /\ ~CycleAmongEnabled) =>
        /\ order.kind = "ok"
        /\ Placed(order.order) = {f \in Features : Enabled(f)}
        /\ Len(order.order) = Cardinality({f \in Features : Enabled(f)})
        /\ \A f \in Features : Enabled(f) =>
              \A d \in EnabledDeps(f) : PositionOf(d) < PositionOf(f)
\* A = OpenWrt enabled, B depends on A and is enabled, C depends on A and is
\* disabled: the order is [A, B]
C10_Witness ==
    /\ Enabled(OpenWrt)
    /\ enabled_in[1] /\ deps_in[1] = {OpenWrt}
    /\ ~enabled_in[2] /\ deps_in[2] = {OpenWrt}
    /\ order.kind = "ok"
    /\ order.order = <<OpenWrt, 1>>

----------------------------------------------------------------------------
(* Order of the steps of OpenWrt::Commands(), checked under Spec           *)

\* C11: the wifi tap is open before the release step is attempted, and an
\* attempted release step has returned before the primary command is put in
\* the command list: no step starts the release with the tap not yet open,
\* no step adds the primary command while the release is pending, and the
\* release is never pending with a primary command in the list.
C11_CleanupBeforePrimary ==
    [][ /\ (release'.attempted /\ ~release.attempted) =>
              (wifi_tap = "open" /\ Primaries = {})
        /\ (Primaries' # {} /\ Primaries = {}) =>
              (~release.pending /\ ~release'.pending
               /\ wifi_tap # "unset")
        /\ release'.pending => Primaries' = {} ]_vars
\* the primary command is in the list after a release step that was attempted
\* and has returned
C11_Witness ==
    /\ Primaries # {}
    /\ wifi_tap = "open"
    /\ release.attempted /\ ~release.pending

====
